---- MODULE Spec2Model ----
(***************************************************************************)
(* Model of dashboard.py: signal classification, crash-probability score,  *)
(* last-run diff, and persistence of last_snapshot.json and                *)
(* crash_history.csv.                                                      *)
(*                                                                         *)
(* One run of the script is one evaluation.  A process p executes the      *)
(* script top to bottom; the steps are cut at the file reads and writes.   *)
(* Optional values (Python None) are sequences: <<>> is None, <<v>> is v.  *)
(* Numbers are integers: yields are in hundredths of a percent.            *)
(***************************************************************************)
EXTENDS Integers, Sequences, FiniteSets, TLC

VARIABLES
    snapFile,     \* last_snapshot.json: [state, content]
    histFile,     \* crash_history.csv: [exists, rows]
    pc,           \* position of each run of the script
    data,         \* fetch_live() result of the run
    status,       \* signals["Status"], by signal name
    last,         \* load_last_snapshot() result
    Change,       \* signals["Change"], by signal name
    crash_prob,   \* the score of the run
    delta_label,  \* the delta part of the banner
    shown,        \* what the run has rendered so far
    clock,        \* the system's calendar date
    today,        \* datetime.date.today() as the run read it
    hist,         \* the DataFrame dedup_append_history builds / returns
    exc,          \* the function whose exception ended the run
    snap0,        \* last_snapshot.json as it was when the run started
    hist0,        \* crash_history.csv as it was when the run started
    lastDone      \* score and statuses of the latest completed run

vars == <<snapFile, histFile, pc, data, status, last, Change, crash_prob,
          delta_label, shown, clock, today, hist, exc, snap0, hist0, lastDone>>

----------------------------------------------------------------------------
(* Bounds *)

MaxDate == 2
MaxInputs == 3

(* Program constant: 0.50 %, in hundredths of a percent *)

YIELD_RED_THRESHOLD == 50

----------------------------------------------------------------------------
(* Basic values *)

Procs == {1, 2}
Dates == 1..MaxDate
None == <<>>
NoTier == "None"

Min(a, b) == IF a < b THEN a ELSE b
Max(a, b) == IF a > b THEN a ELSE b
Abs(a) == IF a < 0 THEN -a ELSE a

SignalNames ==
    << "NVIDIA P/E ratio",
       "Hyperscaler Datacenter CapEx growth",
       "Yield-curve slope (10Y-2Y)",
       "VIX (Volatility Index)",
       "AI/Tech ETF fund flows",
       "China-US tension",
       "Critical resources restrictions",
       "Ukraine / Europe escalation",
       "Global defense spending (proxy: ITA monthly %)",
       "USD reserve share" >>

Signals == { SignalNames[i] : i \in 1..Len(SignalNames) }

----------------------------------------------------------------------------
(* Raw inputs: what fetch_live can return *)

AllValues ==
    << {None, <<39>>, <<40>>, <<55>>, <<56>>},      \* nvda_pe
       {10, 11},                                    \* capex_growth
       {None, <<49>>, <<50>>},                      \* yield_spread
       {None, <<19>>, <<20>>, <<25>>, <<26>>},      \* vix
       {"Unknown", "Inflows", "Outflows"},          \* ai_flows
       {"Unknown", "Stable", "Tightened"},          \* cn_us_tension
       {"Unknown", "Stable", "Tightened"},          \* critical_resources
       {"Unknown", "Stable", "Tense"},              \* ukraine_europe
       {None, <<19>>, <<20>>},                      \* def_spend_trend
       {None, <<56>>, <<57>>} >>                    \* usd_share

CalmValues ==
    << <<39>>, 11, <<49>>, <<19>>, "Inflows", "Stable", "Stable", "Stable",
       <<19>>, <<57>> >>

InputsOver(v) ==
    [ nvda_pe : v[1], capex_growth : v[2], yield_spread : v[3],
      yield_red_threshold : {YIELD_RED_THRESHOLD},
      vix : v[4], ai_flows : v[5], cn_us_tension : v[6],
      critical_resources : v[7], ukraine_europe : v[8],
      def_spend_trend : v[9], usd_share : v[10] ]

AllInputs == InputsOver(AllValues)

\* A calm day, and days that differ from it in single readings.
CalmData == CHOOSE d \in InputsOver([ i \in 1..10 |-> {CalmValues[i]} ]) : TRUE

Scenarios ==
    << CalmData,
       [CalmData EXCEPT !.nvda_pe = <<56>>],
       [CalmData EXCEPT !.nvda_pe = None],
       [CalmData EXCEPT !.nvda_pe = <<40>>],
       [CalmData EXCEPT !.capex_growth = 10, !.vix = <<26>>],
       [CalmData EXCEPT !.yield_spread = None, !.usd_share = None] >>

\* The inputs of the runs that are followed through persistence.
EvalInputs == { Scenarios[i] : i \in 1..Min(MaxInputs, Len(Scenarios)) }

NoData == CalmData

----------------------------------------------------------------------------
(* Classifiers *)

classify_nvda_pe(v) ==
    IF v = None THEN "Unknown"
    ELSE IF v[1] < 40 THEN "Green" ELSE IF v[1] <= 55 THEN "Amber" ELSE "Red"

classify_vix(v) ==
    IF v = None THEN "Unknown"
    ELSE IF v[1] < 20 THEN "Green" ELSE IF v[1] <= 25 THEN "Amber" ELSE "Red"

classify_yield(v, threshold) ==
    IF v = None THEN "Unknown"
    ELSE IF v[1] >= threshold THEN "Red" ELSE "Amber"

classify_ai_flows(s) ==
    IF s = "Unknown" THEN "Unknown"
    ELSE IF s = "Inflows" THEN "Green" ELSE "Red"

classify_text_amber_stable(s) ==
    IF s = "Unknown" THEN "Unknown"
    ELSE IF s = "Stable" THEN "Green" ELSE "Amber"

classify_def_spend(v) ==
    IF v = None THEN "Unknown"
    ELSE IF v[1] < 20 THEN "Green" ELSE "Red"

classify_usd_share(v) ==
    IF v = None THEN "Unknown"
    ELSE IF v[1] >= 57 THEN "Green" ELSE "Red"

rows(d) ==
    << classify_nvda_pe(d.nvda_pe),
       IF d.capex_growth > 10 THEN "Green" ELSE "Amber",
       classify_yield(d.yield_spread, d.yield_red_threshold),
       classify_vix(d.vix),
       classify_ai_flows(d.ai_flows),
       classify_text_amber_stable(d.cn_us_tension),
       classify_text_amber_stable(d.critical_resources),
       classify_text_amber_stable(d.ukraine_europe),
       classify_def_spend(d.def_spend_trend),
       classify_usd_share(d.usd_share) >>

signals(d) ==
    [ s \in Signals |->
        rows(d)[CHOOSE i \in 1..Len(SignalNames) : SignalNames[i] = s] ]

----------------------------------------------------------------------------
(* Last-run diff *)

EmptySnapshot == [ crash_probability |-> None, statuses |-> <<>> ]

last_map_get(last_map, s) ==
    IF s \in DOMAIN last_map THEN last_map[s] ELSE NoTier

order_get(t) ==
    CASE t = "Green" -> 0
      [] t = "Amber" -> 1
      [] t = "Red"   -> 2
      [] OTHER       -> 1

\* The two directions exchanged.
change_marker_swapped(prev, curr) ==
    IF prev = NoTier \/ prev = "Unknown" THEN "unchanged"
    ELSE IF curr = "Unknown" THEN "unchanged"
    ELSE IF order_get(curr) > order_get(prev) THEN "improved"
    ELSE IF order_get(curr) < order_get(prev) THEN "worsened"
    ELSE "unchanged"

change_marker(prev, curr) ==
    IF prev = NoTier \/ prev = "Unknown" THEN "unchanged"
    ELSE IF curr = "Unknown" THEN "unchanged"
    ELSE IF order_get(curr) > order_get(prev) THEN "worsened"
    ELSE IF order_get(curr) < order_get(prev) THEN "improved"
    ELSE "unchanged"

----------------------------------------------------------------------------
(* Crash probability *)

\* A rounding that sends every tie upward.
round_half_up(num, den) ==
    (2 * num + den) \div (2 * den)

\* Python round() of the non-negative quotient num/den: ties go to the even
\* integer.
python_round(num, den) ==
    LET q == num \div den
        r == num % den
    IN  IF 2 * r < den THEN q
        ELSE IF 2 * r > den THEN q + 1
        ELSE IF q % 2 = 0 THEN q ELSE q + 1

\* No upper clamp.
clamp_missing(score) == score

clamp(score) == Min(score, 100)

score_of(st) ==
    LET known     == { s \in Signals : st[s] # "Unknown" }
        amber     == Cardinality({ s \in known : st[s] = "Amber" })
        red       == Cardinality({ s \in known : st[s] = "Red" })
        raw_score == 10 + amber * 5 + red * 10
    IN  clamp(python_round(raw_score * 10, Max(1, Cardinality(known))))

\* The subtraction the wrong way round.
delta_of_reversed(cp, last_prob, chg) ==
    IF last_prob # None
    THEN LET d == last_prob[1] - cp
         IN  [ prev     |-> << last_prob[1] >>,
               d        |-> << d >>,
               arrow    |-> IF d > 0 THEN "up"
                            ELSE IF d < 0 THEN "down" ELSE "flat",
               pp       |-> << Abs(d) >>,
               movement |-> None ]
    ELSE [ prev |-> None, d |-> None, arrow |-> "", pp |-> None,
           movement |-> None ]

\* last_prob is the integer an earlier run saved, so
\* int(round(float(last_prob))) is last_prob itself.
delta_of(cp, last_prob, chg) ==
    LET improved == Cardinality({ s \in Signals : chg[s] = "improved" })
        worsened == Cardinality({ s \in Signals : chg[s] = "worsened" })
        movement == IF improved > 0 \/ worsened > 0
                    THEN << improved, worsened >> ELSE None
    IN  IF last_prob # None
        THEN LET d == cp - last_prob[1]
             IN  [ prev     |-> << last_prob[1] >>,
                   d        |-> << d >>,
                   arrow    |-> IF d > 0 THEN "up"
                                ELSE IF d < 0 THEN "down" ELSE "flat",
                   pp       |-> << Abs(d) >>,
                   movement |-> movement ]
        ELSE [ prev |-> None, d |-> None, arrow |-> "", pp |-> None,
               movement |-> movement ]

NoDelta ==
    [ prev |-> None, d |-> None, arrow |-> "", pp |-> None, movement |-> None ]

----------------------------------------------------------------------------
(* Persisted files *)

MissingSnap == [ state |-> "missing", content |-> EmptySnapshot ]
CorruptSnap == [ state |-> "corrupt", content |-> EmptySnapshot ]
NoHist == [ exists |-> FALSE, rows |-> <<>> ]

load_last_snapshot(file) ==
    IF file.state = "ok" THEN file.content ELSE EmptySnapshot

snapshot_json(cp, status_map) ==
    [ state   |-> "ok",
      content |-> [ crash_probability |-> << cp >>, statuses |-> status_map ] ]

new_row(date_str, prob) == [ date |-> date_str, crash_probability |-> prob ]

\* The new row appended without dropping the date's old row.
dedup_rows_no_filter(old, date_str, prob) ==
    Append(old, new_row(date_str, prob))

\* The old rows dropped altogether.
dedup_rows_only_new(old, date_str, prob) ==
    << new_row(date_str, prob) >>

\* hist[hist["date"] != date_str], then concat with the new row
dedup_rows(old, date_str, prob) ==
    Append(SelectSeq(old, LAMBDA r : r.date # date_str),
           new_row(date_str, prob))

----------------------------------------------------------------------------
(* State of a run that is not executing *)

NoStatus == [ s \in Signals |-> "Unknown" ]
NoChange == [ s \in Signals |-> "unchanged" ]

Init ==
    /\ snapFile = MissingSnap
    /\ histFile = NoHist
    /\ pc = [ p \in Procs |-> "idle" ]
    /\ data = [ p \in Procs |-> NoData ]
    /\ status = [ p \in Procs |-> NoStatus ]
    /\ last = [ p \in Procs |-> EmptySnapshot ]
    /\ Change = [ p \in Procs |-> NoChange ]
    /\ crash_prob = [ p \in Procs |-> 0 ]
    /\ delta_label = [ p \in Procs |-> NoDelta ]
    /\ shown = [ p \in Procs |-> {} ]
    /\ clock \in Dates
    /\ today = [ p \in Procs |-> 0 ]
    /\ hist = [ p \in Procs |-> <<>> ]
    /\ exc = [ p \in Procs |-> "" ]
    /\ snap0 = [ p \in Procs |-> MissingSnap ]
    /\ hist0 = [ p \in Procs |-> NoHist ]
    /\ lastDone = None

----------------------------------------------------------------------------
(* The script, step by step *)

\* data = fetch_live(...); rows; signals
FetchLive(p, inputs) ==
    /\ pc[p] = "idle"
    /\ \E d \in inputs :
          /\ data' = [data EXCEPT ![p] = d]
          /\ status' = [status EXCEPT ![p] = signals(d)]
    /\ snap0' = [snap0 EXCEPT ![p] = snapFile]
    /\ hist0' = [hist0 EXCEPT ![p] = histFile]
    /\ pc' = [pc EXCEPT ![p] = "fetched"]
    /\ UNCHANGED <<clock, snapFile, histFile, last, Change, crash_prob, delta_label,
                   shown, today, hist, exc, lastDone>>

\* last = load_last_snapshot(): the file is absent or holds JSON
LoadLast(p) ==
    /\ pc[p] = "fetched"
    /\ snapFile.state # "corrupt"
    /\ last' = [last EXCEPT ![p] = load_last_snapshot(snapFile)]
    /\ pc' = [pc EXCEPT ![p] = "loaded"]
    /\ UNCHANGED <<clock, snapFile, histFile, data, status, Change, crash_prob,
                   delta_label, shown, today, hist, exc, snap0, hist0,
                   lastDone>>

\* last = load_last_snapshot(): json.load raises on a file that is not JSON
LoadLastRaises(p) ==
    /\ pc[p] = "fetched"
    /\ snapFile.state = "corrupt"
    /\ pc' = [pc EXCEPT ![p] = "raised"]
    /\ exc' = [exc EXCEPT ![p] = "load_last_snapshot"]
    /\ UNCHANGED <<clock, snapFile, histFile, data, status, last, Change, crash_prob,
                   delta_label, shown, today, hist, snap0, hist0, lastDone>>

\* change markers, crash probability, banner with deltas, table
Score(p) ==
    /\ pc[p] = "loaded"
    /\ LET chg == [ s \in Signals |->
                      change_marker(last_map_get(last[p].statuses, s),
                                    status[p][s]) ]
           cp  == score_of(status[p])
       IN  /\ Change' = [Change EXCEPT ![p] = chg]
           /\ crash_prob' = [crash_prob EXCEPT ![p] = cp]
           /\ delta_label' = [delta_label EXCEPT ![p] =
                                delta_of(cp, last[p].crash_probability, chg)]
    /\ shown' = [shown EXCEPT ![p] = {"banner", "table"}]
    /\ pc' = [pc EXCEPT ![p] = "scored"]
    /\ UNCHANGED <<clock, snapFile, histFile, data, status, last, today, hist, exc,
                   snap0, hist0, lastDone>>

\* today = date.today(); dedup_append_history: new, os.path.exists
HistExists(p) ==
    /\ pc[p] = "scored"
    /\ today' = [today EXCEPT ![p] = clock]
    /\ hist' = [hist EXCEPT ![p] = << new_row(clock, crash_prob[p]) >>]
    /\ pc' = [pc EXCEPT ![p] =
                IF histFile.exists THEN "hist_read" ELSE "hist_write"]
    /\ UNCHANGED <<clock, snapFile, histFile, data, status, last, Change, crash_prob,
                   delta_label, shown, exc, snap0, hist0, lastDone>>

\* dedup_append_history: read_csv, drop today's row, concat
HistRead(p) ==
    /\ pc[p] = "hist_read"
    /\ hist' = [hist EXCEPT ![p] =
                  dedup_rows(histFile.rows, today[p], crash_prob[p])]
    /\ pc' = [pc EXCEPT ![p] = "hist_write"]
    /\ UNCHANGED <<clock, snapFile, histFile, data, status, last, Change, crash_prob,
                   delta_label, shown, today, exc, snap0, hist0, lastDone>>

\* dedup_append_history: to_csv succeeds
HistWrite(p) ==
    /\ pc[p] = "hist_write"
    /\ histFile' = [ exists |-> TRUE, rows |-> hist[p] ]
    /\ pc' = [pc EXCEPT ![p] = "save"]
    /\ UNCHANGED <<clock, snapFile, data, status, last, Change, crash_prob,
                   delta_label, shown, today, hist, exc, snap0, hist0,
                   lastDone>>

\* dedup_append_history: to_csv cannot open the file and raises
HistWriteRaises(p) ==
    /\ pc[p] = "hist_write"
    /\ pc' = [pc EXCEPT ![p] = "raised"]
    /\ exc' = [exc EXCEPT ![p] = "dedup_append_history"]
    /\ UNCHANGED <<clock, snapFile, histFile, data, status, last, Change, crash_prob,
                   delta_label, shown, today, hist, snap0, hist0, lastDone>>

\* save_last_snapshot succeeds
SaveSnapshot(p) ==
    /\ pc[p] = "save"
    /\ snapFile' = snapshot_json(crash_prob[p], status[p])
    /\ pc' = [pc EXCEPT ![p] = "trend"]
    /\ UNCHANGED <<clock, histFile, data, status, last, Change, crash_prob,
                   delta_label, shown, today, hist, exc, snap0, hist0,
                   lastDone>>

\* save_last_snapshot raises: open(..., "w") fails and the file is as it
\* was, or the write fails after open truncated the file
SaveSnapshotRaises(p) ==
    /\ pc[p] = "save"
    /\ snapFile' \in {snapFile, CorruptSnap}
    /\ pc' = [pc EXCEPT ![p] = "raised"]
    /\ exc' = [exc EXCEPT ![p] = "save_last_snapshot"]
    /\ UNCHANGED <<clock, histFile, data, status, last, Change, crash_prob,
                   delta_label, shown, today, hist, snap0, hist0, lastDone>>

\* trend chart, audit panel, caption: the script ends
Trend(p) ==
    /\ pc[p] = "trend"
    /\ shown' = [shown EXCEPT ![p] = @ \cup {"trend", "audit"}]
    /\ lastDone' = << [ crash_probability |-> crash_prob[p],
                        statuses |-> status[p] ] >>
    /\ pc' = [pc EXCEPT ![p] = "done"]
    /\ UNCHANGED <<clock, snapFile, histFile, data, status, last, Change, crash_prob,
                   delta_label, today, hist, exc, snap0, hist0>>

\* The calendar date changes: midnight passes, or the system date is set
DateChanges ==
    /\ clock' \in Dates \ {clock}
    /\ UNCHANGED <<snapFile, histFile, pc, data, status, last, Change,
                   crash_prob, delta_label, shown, today, hist, exc, snap0,
                   hist0, lastDone>>

\* Streamlit runs the script again from the top
Rerun(p) ==
    /\ pc[p] \in {"done", "raised"}
    /\ pc' = [pc EXCEPT ![p] = "idle"]
    /\ data' = [data EXCEPT ![p] = NoData]
    /\ status' = [status EXCEPT ![p] = NoStatus]
    /\ last' = [last EXCEPT ![p] = EmptySnapshot]
    /\ Change' = [Change EXCEPT ![p] = NoChange]
    /\ crash_prob' = [crash_prob EXCEPT ![p] = 0]
    /\ delta_label' = [delta_label EXCEPT ![p] = NoDelta]
    /\ shown' = [shown EXCEPT ![p] = {}]
    /\ today' = [today EXCEPT ![p] = 0]
    /\ hist' = [hist EXCEPT ![p] = <<>>]
    /\ exc' = [exc EXCEPT ![p] = ""]
    /\ snap0' = [snap0 EXCEPT ![p] = MissingSnap]
    /\ hist0' = [hist0 EXCEPT ![p] = NoHist]
    /\ UNCHANGED <<clock, snapFile, histFile, lastDone>>

----------------------------------------------------------------------------
(* Specifications *)

\* One run at a time, run after run, over the evaluation inputs.
Next ==
    \/ FetchLive(1, EvalInputs)
    \/ LoadLast(1)
    \/ LoadLastRaises(1)
    \/ Score(1)
    \/ HistExists(1)
    \/ HistRead(1)
    \/ HistWrite(1)
    \/ HistWriteRaises(1)
    \/ SaveSnapshot(1)
    \/ SaveSnapshotRaises(1)
    \/ Trend(1)
    \/ Rerun(1)
    \/ DateChanges

Spec == Init /\ [][Next]_vars

\* The score alone, over every input fetch_live can return.
NextScore ==
    \/ FetchLive(1, AllInputs)
    \/ LoadLast(1)
    \/ Score(1)

InitScore == Init /\ clock = 1

SpecScore == InitScore /\ [][NextScore]_vars

----------------------------------------------------------------------------
(* Two runs racing *)

\* The files earlier runs can have left: a snapshot written by a run (or
\* none, or a truncated one), and a history with one row per date, in any
\* order of dates.  The earlier rows carry the score of a calm day.
EvalSnapshots ==
    { snapshot_json(score_of(signals(d)), signals(d)) : d \in EvalInputs }

PriorScores == { score_of(signals(CalmData)) }

RECURSIVE HistoriesOver(_)
HistoriesOver(dates) ==
    {<<>>} \cup
    UNION { { Append(h, new_row(t, sc)) : sc \in PriorScores,
                                           h \in HistoriesOver(dates \ {t}) }
            : t \in dates }

PriorHistories ==
    {NoHist} \cup
    { [ exists |-> TRUE, rows |-> h ] : h \in HistoriesOver(Dates) \ {<<>>} }

InitConc ==
    /\ snapFile \in {MissingSnap, CorruptSnap} \cup EvalSnapshots
    /\ histFile \in PriorHistories
    /\ pc = [ p \in Procs |-> "idle" ]
    /\ data = [ p \in Procs |-> NoData ]
    /\ status = [ p \in Procs |-> NoStatus ]
    /\ last = [ p \in Procs |-> EmptySnapshot ]
    /\ Change = [ p \in Procs |-> NoChange ]
    /\ crash_prob = [ p \in Procs |-> 0 ]
    /\ delta_label = [ p \in Procs |-> NoDelta ]
    /\ shown = [ p \in Procs |-> {} ]
    /\ clock \in Dates
    /\ today = [ p \in Procs |-> 0 ]
    /\ hist = [ p \in Procs |-> <<>> ]
    /\ exc = [ p \in Procs |-> "" ]
    /\ snap0 = [ p \in Procs |-> MissingSnap ]
    /\ hist0 = [ p \in Procs |-> NoHist ]
    /\ lastDone = None

\* Each of the two processes runs the script once, on the same date; their
\* steps interleave, every file read and every file write being one step.
NextConc ==
    \E p \in Procs :
        \/ FetchLive(p, EvalInputs)
        \/ LoadLast(p)
        \/ LoadLastRaises(p)
        \/ Score(p)
        \/ HistExists(p)
        \/ HistRead(p)
        \/ HistWrite(p)
        \/ HistWriteRaises(p)
        \/ SaveSnapshot(p)
        \/ SaveSnapshotRaises(p)
        \/ Trend(p)

SpecConc == InitConc /\ [][NextConc]_vars

----------------------------------------------------------------------------
(* Properties *)

Known(st) == { s \in Signals : st[s] # "Unknown" }
AmberCount(st) == Cardinality({ s \in Signals : st[s] = "Amber" })
RedCount(st) == Cardinality({ s \in Signals : st[s] = "Red" })
RawScore(st) == 10 + 5 * AmberCount(st) + 10 * RedCount(st)

\* The run has its score and markers and has not yet ended.
Computed(p) ==
    pc[p] \in {"scored", "hist_read", "hist_write", "save", "trend"}

\* The run has written the history file.
Appended(p) == pc[p] \in {"save", "trend", "done"}

RowsOf(file) == { file.rows[i] : i \in DOMAIN file.rows }

\* C1: the score of every run is an integer between 0 and 100, whatever
\* tiers the ten signals have.
C1_ScoreInRange ==
    \A p \in Procs : pc[p] = "scored" => crash_prob[p] \in 0..100

\* A run whose scaled raw score is above 100: one known signal, Amber.
C1_Witness ==
    /\ pc[1] = "scored"
    /\ Cardinality(Known(status[1])) = 1
    /\ AmberCount(status[1]) = 1
    /\ crash_prob[1] = 100

\* C2, as stated: with at least one known signal the score is
\* min(round(raw * 10 / known), 100), round being the nearest integer with
\* a tie going up as in the spec's 37.5 -> 38; with all ten signals known it
\* is min(10 + 5*amber + 10*red, 100).
C2_RoundNearestTiesUp ==
    \A p \in Procs :
        (pc[p] = "scored" /\ Known(status[p]) # {}) =>
            LET num == RawScore(status[p]) * 10
                den == Cardinality(Known(status[p]))
            IN  /\ \E n \in 0..1000 :
                      /\ 2 * (num - n * den) < den
                      /\ 2 * (num - n * den) >= -den
                      /\ crash_prob[p] = Min(n, 100)
                /\ den = 10 => crash_prob[p] = Min(RawScore(status[p]), 100)

\* C2, amended: the same, round being the nearest integer with a tie going
\* to the even neighbour (12.5 -> 12, 37.5 -> 38, 62.5 -> 62).
C2_RoundNearestTiesEven ==
    \A p \in Procs :
        (pc[p] = "scored" /\ Known(status[p]) # {}) =>
            LET num == RawScore(status[p]) * 10
                den == Cardinality(Known(status[p]))
            IN  /\ \E n \in 0..1000 :
                      /\ 2 * Abs(num - n * den) <= den
                      /\ 2 * Abs(num - n * den) = den => n % 2 = 0
                      /\ crash_prob[p] = Min(n, 100)
                /\ den = 10 => crash_prob[p] = Min(RawScore(status[p]), 100)

\* A run whose scaled raw score is a tie with an even floor: eight known
\* signals, all Green, 12.5.
C2_Witness ==
    /\ pc[1] = "scored"
    /\ Cardinality(Known(status[1])) = 8
    /\ RawScore(status[1]) = 10
    /\ crash_prob[1] = 12

\* C3: the history file holds at most one row per date, and once a run has
\* appended, the row of its date carries its score, also when the date had
\* a row with another score before.
C3_OneRowPerDate ==
    /\ \A i, j \in DOMAIN histFile.rows :
          histFile.rows[i].date = histFile.rows[j].date => i = j
    /\ \A p \in Procs :
          Appended(p) =>
              { r \in RowsOf(histFile) : r.date = today[p] }
                  = { new_row(today[p], crash_prob[p]) }

\* A run has appended for a date that had a row with a different score.
C3_Witness ==
    /\ pc[1] = "save"
    /\ \E r \in RowsOf(hist0[1]) :
          r.date = today[1] /\ r.crash_probability # crash_prob[1]
    /\ Len(histFile.rows) = 2

TierRank(t) == CASE t = "Green" -> 0 [] t = "Amber" -> 1 [] t = "Red" -> 2

Ranked == {"Green", "Amber", "Red"}

PriorTier(s) == IF lastDone = None THEN NoTier ELSE lastDone[1].statuses[s]

\* C4: the marker of every signal follows from the tier the previous
\* completed run had for that signal and the current tier: unchanged when
\* there is no prior tier, the prior tier is Unknown, or the two are equal;
\* worsened when the current tier ranks higher in Green < Amber < Red;
\* improved when it ranks lower.
C4_ChangeMarker ==
    \A p \in Procs : Computed(p) =>
        \A s \in Signals :
            LET prev == PriorTier(s)
                curr == status[p][s]
            IN  /\ (prev = NoTier \/ prev = "Unknown" \/ prev = curr)
                      => Change[p][s] = "unchanged"
                /\ (prev \in Ranked /\ curr \in Ranked
                      /\ TierRank(curr) > TierRank(prev))
                      => Change[p][s] = "worsened"
                /\ (prev \in Ranked /\ curr \in Ranked
                      /\ TierRank(curr) < TierRank(prev))
                      => Change[p][s] = "improved"

\* A run after a completed one, with a signal gone from Green to Red.
C4_Witness ==
    /\ pc[1] = "scored"
    /\ \E s \in Signals :
          /\ PriorTier(s) = "Green"
          /\ status[1][s] = "Red"
          /\ Change[1][s] = "worsened"

\* C5, as stated: load_last_snapshot never raises; with the snapshot file
\* missing or corrupt the run goes on with the empty snapshot.
C5_LoadFailsSoft ==
    \A p \in Procs :
        (pc[p] \notin {"idle", "fetched"}
            /\ snap0[p].state \in {"missing", "corrupt"}) =>
            /\ exc[p] # "load_last_snapshot"
            /\ last[p] = EmptySnapshot

\* C6, as stated: a failed write of the history or of the snapshot does not
\* end the run.
C6_PersistFailureCaught ==
    \A p \in Procs :
        exc[p] \in {"dedup_append_history", "save_last_snapshot"} =>
            pc[p] # "raised"

\* C7, as stated: the history a run hands to the trend chart is in
\* ascending order of date.
C7_HistoryAscending ==
    \A p \in Procs : Appended(p) =>
        \A i, j \in DOMAIN hist[p] :
            i < j => hist[p][i].date < hist[p][j].date

\* C8: a run that follows a completed run reports that run's score as the
\* previous score, its own score minus it as the delta, and the arrow of the
\* delta's sign; a run with no completed run before it reports no delta.
C8_ScoreDelta ==
    \A p \in Procs : Computed(p) =>
        IF lastDone = None
        THEN /\ delta_label[p].prev = None
             /\ delta_label[p].d = None
        ELSE LET before == lastDone[1].crash_probability
                 d      == crash_prob[p] - before
             IN  /\ delta_label[p].prev = << before >>
                 /\ delta_label[p].d = << d >>
                 /\ delta_label[p].pp = << Abs(d) >>
                 /\ d > 0 => delta_label[p].arrow = "up"
                 /\ d < 0 => delta_label[p].arrow = "down"
                 /\ d = 0 => delta_label[p].arrow = "flat"

\* A run scoring higher than the completed run before it.
C8_Witness ==
    /\ pc[1] = "scored"
    /\ lastDone # None
    /\ crash_prob[1] > lastDone[1].crash_probability
    /\ delta_label[1].arrow = "up"

\* C9, as stated: a run that ends in an exception leaves both files as they
\* were when it started.
C9_CrashLeavesFiles ==
    \A p \in Procs :
        pc[p] = "raised" => snapFile = snap0[p] /\ histFile = hist0[p]

BothDone == \A p \in Procs : pc[p] = "done"

\* C10: when two runs on the same date have both finished, the snapshot
\* file is the whole snapshot of one of them, the history has exactly one
\* row for the date, with the score of one of them, and every row of
\* another date that was there before is still there.
C10_LastWriterWins ==
    (BothDone /\ today[1] = today[2]) =>
        /\ snapFile \in
              { snapshot_json(crash_prob[p], status[p]) : p \in Procs }
        /\ \E p \in Procs :
              { r \in RowsOf(histFile) : r.date = today[1] }
                  = { new_row(today[p], crash_prob[p]) }
        /\ Cardinality({ i \in DOMAIN histFile.rows :
                            histFile.rows[i].date = today[1] }) = 1
        /\ \A p \in Procs :
              \A r \in RowsOf(hist0[p]) :
                  r.date # today[1] => r \in RowsOf(histFile)

\* Both runs done, the history's row from one and the snapshot from the
\* other, with a row of another date kept.
C10_Witness ==
    /\ BothDone
    /\ today[1] = today[2]
    /\ crash_prob[1] # crash_prob[2]
    /\ new_row(today[1], crash_prob[1]) \in RowsOf(histFile)
    /\ snapFile = snapshot_json(crash_prob[2], status[2])
    /\ \E r \in RowsOf(hist0[1]) : r.date # today[1]
    /\ hist0[1] = hist0[2]

====
